---- MODULE Spec2Model ----
\* A model of src/server.ts (the dotenv version, lines 56-132): the module's
\* top-level code (dotenv.config, the PORT/URL/API_KEY constants, start()),
\* the outcome of server.listen, and the two route handlers.
\*
\* JavaScript strings are sequences of one-character strings, so that parseInt
\* and the template literal `user-${Date.now()}` are computed character by
\* character.  JavaScript values are tagged records [t, v].
EXTENDS Integers, Sequences, FiniteSets

VARIABLES
  processEnv,  \* process.env: a function from the names that are set to strings
  fs,          \* the project root: file name -> [exists, parsed]
  clock,       \* the value Date.now() returns
  pc,          \* "init" | "binding" | "listening" | "exited"
  PORT,        \* const PORT    (line 67)
  URL,         \* const URL     (line 68)
  API_KEY,     \* const API_KEY (line 69)
  listenPort,  \* the port handed to server.listen (line 120)
  console,     \* what console.log / server.log.error have written, in order
  exitCode,    \* <<>> while the process runs, <<c>> after process.exit(c)
  replies      \* the requests handled so far, each with its reply

vars == <<processEnv, fs, clock, pc, PORT, URL, API_KEY, listenPort, console,
          exitCode, replies>>

-----------------------------------------------------------------------------
\* Bounds of the model.

MaxRequests == 2
MaxTicks == 2
ClockStart == 9

-----------------------------------------------------------------------------
\* JavaScript values.

Str(s) == [t |-> "string", v |-> s]
Num(n) == [t |-> "number", v |-> n]
Obj(f) == [t |-> "object", v |-> f]
Undefined == [t |-> "undefined", v |-> 0]
NaN == [t |-> "NaN", v |-> 0]

\* JavaScript truthiness, as `||` and `? :` test it.
Truthy(x) ==
  CASE x.t = "string" -> x.v # <<>>
    [] x.t = "number" -> x.v # 0
    [] x.t = "object" -> TRUE
    [] OTHER -> FALSE

\* a || b
Or(a, b) == IF Truthy(a) THEN a ELSE b

\* obj[k] of a plain object: undefined when the property is not there.
Prop(f, k) == IF k \in DOMAIN f THEN f[k] ELSE Undefined

DigitChars == <<"0", "1", "2", "3", "4", "5", "6", "7", "8", "9">>
IsDigit(c) == \E i \in 1..Len(DigitChars) : DigitChars[i] = c
DigitVal(c) == (CHOOSE i \in 1..Len(DigitChars) : DigitChars[i] = c) - 1
IsSpace(c) == c = " "

\* String(n) for an integer n.
RECURSIVE NatToString(_)
NatToString(n) ==
  IF n < 10 THEN <<DigitChars[n + 1]>>
  ELSE NatToString(n \div 10) \o <<DigitChars[(n % 10) + 1]>>

ToString(n) == IF n < 0 THEN <<"-">> \o NatToString(-n) ELSE NatToString(n)

RECURSIVE SkipSpaces(_)
SkipSpaces(s) ==
  IF s # <<>> /\ IsSpace(Head(s)) THEN SkipSpaces(Tail(s)) ELSE s

\* The longest prefix of s made of decimal digits.
RECURSIVE DigitPrefix(_)
DigitPrefix(s) ==
  IF s # <<>> /\ IsDigit(Head(s)) THEN <<Head(s)>> \o DigitPrefix(Tail(s))
  ELSE <<>>

RECURSIVE DigitsValue(_, _)
DigitsValue(s, acc) ==
  IF s = <<>> THEN acc ELSE DigitsValue(Tail(s), acc * 10 + DigitVal(Head(s)))

\* parseInt(x, 10): x is turned into a string, leading white space is skipped,
\* an optional sign is read, then as many decimal digits as there are; what
\* follows them is ignored, and no digit at all gives NaN.
ParseInt(x) ==
  LET s == IF x.t = "number" THEN ToString(x.v) ELSE x.v
      u == SkipSpaces(s)
      neg == u # <<>> /\ Head(u) = "-"
      w == IF u # <<>> /\ Head(u) \in {"-", "+"} THEN Tail(u) ELSE u
      d == DigitPrefix(w)
  IN IF d = <<>> THEN NaN
     ELSE Num(IF neg THEN 0 - DigitsValue(d, 0) ELSE DigitsValue(d, 0))

\* JSON.stringify of a plain object, as the reply is serialised: a property
\* whose value is undefined is left out.
JsonStringify(f) == [k \in {j \in DOMAIN f : f[j].t # "undefined"} |-> f[k]]
-----------------------------------------------------------------------------
\* The literals of the program.

DefaultPort == 3000
\* 'http://localhost:3000'
DefaultUrl == <<"h", "t", "t", "p", ":", "/", "/", "l", "o", "c", "a", "l", "h", "o", "s", "t", ":", "3", "0", "0", "0">>
\* 'Hello, Fastify with TypeScript!' (the greeting of GET /)
HelloMessage == <<"H", "e", "l", "l", "o", ",", " ", "F", "a", "s", "t", "i", "f", "y", " ", "w", "i", "t", "h", " ", "T", "y", "p", "e", "S", "c", "r", "i", "p", "t", "!">>
\* 'user-'
UserPrefix == <<"u", "s", "e", "r", "-">>
\* '.env.local', the one file the program hands to dotenv
DotEnv == <<".", "e", "n", "v">>
DotLocal == <<".", "l", "o", "c", "a", "l">>
EnvLocalName == DotEnv \o DotLocal

ConfigKeys == {"PORT", "URL", "API_KEY"}

-----------------------------------------------------------------------------
\* The environment the program starts in.

Development == <<"d", "e", "v", "e", "l", "o", "p", "m", "e", "n", "t">>
Production == <<"p", "r", "o", "d", "u", "c", "t", "i", "o", "n">>

\* The file of a run-mode, beside the two mode-less files.
ModeFile(mode, local) ==
  DotEnv \o <<".">> \o mode \o (IF local THEN DotLocal ELSE <<>>)

FileNames ==
  {DotEnv, EnvLocalName} \cup
  {ModeFile(m, l) : m \in {Development, Production}, l \in BOOLEAN}

NoFile == [exists |-> FALSE, parsed |-> <<>>]
File(f) == [exists |-> TRUE, parsed |-> f]

\* A table from a record of options: <<>> leaves the name out, <<s>> sets it.
Table(opts) == [k \in {j \in DOMAIN opts : opts[j] # <<>>} |-> opts[k][1]]

\* The .env.local of the README: PORT=3002, URL commented out, API_KEY set.
ReadmeLocal ==
  File(Table([PORT |-> << <<"3", "0", "0", "2">> >>, URL |-> <<>>,
              API_KEY |-> << <<"e", "n", "v", "_", "l", "o", "c", "a", "l", "_", "k", "e", "y">> >>]))

\* PORT values the environment may hold: '', '0', 'abc', '12ab', '3002', '-5'.
PortStrings ==
  {<<>>, <<"0">>, <<"a", "b", "c">>, <<"1", "2", "a", "b">>, <<"3", "0", "0", "2">>, <<"-", "5">>}

EnvUrl == <<"h", "t", "t", "p", ":", "/", "/", "e", "n", "v">>
EnvKey == <<"e", "n", "v", "_", "k", "e", "y">>

WideEnvs ==
  {Table(o) : o \in [PORT : {<<>>} \cup {<<p>> : p \in PortStrings},
                     URL : {<<>>, << <<>> >>, <<EnvUrl>>},
                     API_KEY : {<<>>, << <<>> >>, <<EnvKey>>},
                     NODE_ENV : {<<>>, <<Development>>}]}

\* What .env.local may hold.
LocalFiles ==
  {NoFile} \cup
  {File(Table(o)) : o \in [PORT : {<<>>, << <<>> >>, << <<"3", "0", "0", "2">> >>},
                           URL : {<<>>, << <<"h", "t", "t", "p", ":", "/", "/", "l", "o", "c", "a", "l">> >>},
                           API_KEY : {<<>>, << <<"e", "n", "v", "_", "l", "o", "c", "a", "l", "_", "k", "e", "y">> >>}]}

\* What a file the program does not name holds when it is there: its own
\* value for each of the three keys.
OtherPort(n) ==
  CASE n = DotEnv -> <<"3", "0", "0", "5">>
    [] n = ModeFile(Development, FALSE) -> <<"3", "0", "0", "1">>
    [] n = ModeFile(Development, TRUE) -> <<"3", "0", "0", "4">>
    [] n = ModeFile(Production, FALSE) -> <<"3", "0", "0", "3">>
    [] OTHER -> <<"3", "0", "0", "6">>

OtherFile(n) ==
  File([PORT |-> OtherPort(n), URL |-> <<"u">> \o n, API_KEY |-> <<"k">> \o n])

WideFs ==
  {[n \in FileNames |->
      IF n = EnvLocalName THEN l ELSE IF n \in there THEN OtherFile(n) ELSE NoFile]
   : l \in LocalFiles, there \in SUBSET (FileNames \ {EnvLocalName})}

ServeEnvs ==
  {Table(o) : o \in [PORT : {<<>>, << <<"a", "b", "c">> >>, << <<"0">> >>, << <<"8", "0", "8", "0">> >>},
                     URL : {<<>>, <<EnvUrl>>},
                     API_KEY : {<<>>, <<EnvKey>>},
                     NODE_ENV : {<<>>}]}

ServeFs ==
  {[n \in FileNames |-> IF n = EnvLocalName THEN l ELSE NoFile]
   : l \in {NoFile, ReadmeLocal}}

InitWith(envs, files) ==
  /\ processEnv \in envs
  /\ fs \in files
  /\ clock = ClockStart
  /\ pc = "init"
  /\ PORT = Undefined
  /\ URL = Undefined
  /\ API_KEY = Undefined
  /\ listenPort = 0
  /\ console = <<>>
  /\ exitCode = <<>>
  /\ replies = <<>>

Init == InitWith(ServeEnvs, ServeFs)
InitConfig == InitWith(WideEnvs, WideFs)

-----------------------------------------------------------------------------
\* Start-up.

\* A dotenv.config called with override: true, where the file wins.
DotenvConfigOverride(env, files, name) ==
  IF ~files[name].exists THEN env
  ELSE LET parsed == files[name].parsed
       IN [k \in DOMAIN env \cup DOMAIN parsed |->
             IF k \in DOMAIN parsed THEN parsed[k] ELSE env[k]]

\* dotenv.config({ path }): a file that is not there is skipped without an
\* error; a name the file defines is set in process.env unless process.env
\* has it already.
DotenvConfig(env, files, name) ==
  IF ~files[name].exists THEN env
  ELSE LET parsed == files[name].parsed
       IN [k \in DOMAIN env \cup DOMAIN parsed |->
             IF k \in DOMAIN env THEN env[k] ELSE parsed[k]]

\* process.env.NAME
EnvGet(env, k) == IF k \in DOMAIN env THEN Str(env[k]) ELSE Undefined

ResolvePORT(env) == Or(EnvGet(env, "PORT"), Num(DefaultPort))
ResolveURL(env) == Or(EnvGet(env, "URL"), Str(DefaultUrl))
\* process.env.API_KEY || '': a key that is never left undefined.
ResolveAPI_KEYDefaulted(env) == Or(EnvGet(env, "API_KEY"), Str(<<>>))


ResolveAPI_KEY(env) == EnvGet(env, "API_KEY")

\* parseInt(PORT as string, 10) || 3000
ListenPort(port) == Or(ParseInt(port), Num(DefaultPort)).v

\* The module's top-level code, up to the await of server.listen in start().
Boot ==
  /\ pc = "init"
  /\ LET env == DotenvConfig(processEnv, fs, EnvLocalName)
     IN /\ processEnv' = env
        /\ PORT' = ResolvePORT(env)
        /\ URL' = ResolveURL(env)
        /\ API_KEY' = ResolveAPI_KEY(env)
  /\ listenPort' = ListenPort(PORT')
  /\ pc' = "binding"
  /\ UNCHANGED <<fs, clock, console, exitCode, replies>>

StartupMessages ==
  <<[level |-> "log", text |-> "Server listening on port", arg |-> PORT],
    [level |-> "log", text |-> "Database URL:", arg |-> URL],
    [level |-> "log", text |-> "API Key:",
     arg |-> IF Truthy(API_KEY) THEN Str(<<"L", "o", "a", "d", "e", "d">>)
             ELSE Str(<<"N", "o", "t", " ", "L", "o", "a", "d", "e", "d">>)]>>

\* server.listen resolves: the three start-up messages are written.
ListenResolved ==
  /\ pc = "binding"
  /\ listenPort \in 0..65535
  /\ console' = console \o StartupMessages
  /\ pc' = "listening"
  /\ UNCHANGED <<processEnv, fs, clock, PORT, URL, API_KEY, listenPort,
                 exitCode, replies>>

\* A catch block that ends the process with process.exit(0).
ListenRejectedExitZero ==
  /\ pc = "binding"
  /\ console' = Append(console, [level |-> "error", text |-> "listen",
                                 arg |-> Num(listenPort)])
  /\ exitCode' = <<0>>
  /\ pc' = "exited"
  /\ UNCHANGED <<processEnv, fs, clock, PORT, URL, API_KEY, listenPort,
                 replies>>

\* server.listen rejects (the port is taken, not permitted or not a port):
\* the catch block logs the error and ends the process.
ListenRejected ==
  /\ pc = "binding"
  /\ console' = Append(console, [level |-> "error", text |-> "listen",
                                 arg |-> Num(listenPort)])
  /\ exitCode' = <<1>>
  /\ pc' = "exited"
  /\ UNCHANGED <<processEnv, fs, clock, PORT, URL, API_KEY, listenPort,
                 replies>>

-----------------------------------------------------------------------------
\* Requests.

\* Date.now() moves on.
Tick ==
  /\ clock < ClockStart + MaxTicks
  /\ clock' = clock + 1
  /\ UNCHANGED <<processEnv, fs, pc, PORT, URL, API_KEY, listenPort, console,
                 exitCode, replies>>

Alice == Str(<<"A", "l", "i", "c", "e">>)
Bob == Str(<<"B", "o", "b">>)
AliceMail == Str(<<"a", "l", "i", "c", "e", "@", "e", "x", "a", "m", "p", "l", "e", ".", "c", "o", "m">>)

\* The bodies POST /users is sent: none, or an object with or without each of
\* name and email (TypeScript's ICreateUserBody is not checked at run time).
RequestBodies ==
  {Undefined} \cup
  {Obj(Table(o)) : o \in [name : {<<>>, <<Alice>>, <<Bob>>},
                          email : {<<>>, <<AliceMail>>}]}

Served(route, body, status, payload) ==
  [route |-> route, body |-> body, now |-> clock, status |-> status,
   payload |-> payload]

\* A handler that reads process.env when the request comes in.
GetRootResultFromEnv ==
  [message |-> Str(HelloMessage), port |-> EnvGet(processEnv, "PORT"),
   url |-> EnvGet(processEnv, "URL"), apiKey |-> EnvGet(processEnv, "API_KEY")]

\* The object the GET / handler returns.
GetRootResult ==
  [message |-> Str(HelloMessage), port |-> PORT, url |-> URL, apiKey |-> API_KEY]

\* GET /: the returned object is sent with status 200.
GetRoot ==
  /\ pc = "listening"
  /\ Len(replies) < MaxRequests
  /\ replies' = Append(replies,
                       Served("GET /", Undefined, 200, JsonStringify(GetRootResult)))
  /\ UNCHANGED <<processEnv, fs, clock, pc, PORT, URL, API_KEY, listenPort,
                 console, exitCode>>

\* An id from the clock in seconds: `user-${Math.floor(Date.now() / 1000)}`.
NewUserIdSeconds(now) == Str(UserPrefix \o ToString(now \div 1000))

\* `user-${Date.now()}`
NewUserId(now) == Str(UserPrefix \o ToString(now))

\* A new user with name and email the wrong way round.
NewUserSwapped(name, email, now) ==
  [id |-> NewUserId(now), name |-> email, email |-> name]

\* const newUser = { id, name, email }
NewUser(name, email, now) ==
  [id |-> NewUserId(now), name |-> name, email |-> email]

\* What the framework answers when a handler throws.
InternalServerError ==
  [statusCode |-> Num(500), error |-> Str(<<"I", "n", "t", "e", "r", "n", "a", "l", " ", "S", "e", "r", "v", "e", "r", " ", "E", "r", "r", "o", "r">>)]

\* POST /users: destructuring request.body throws when there is no body, and
\* the framework answers 500; otherwise the line is logged and the new user is
\* sent with status 201.
PostUsers(body) ==
  /\ pc = "listening"
  /\ Len(replies) < MaxRequests
  /\ IF body.t = "undefined"
       THEN /\ replies' = Append(replies,
                                 Served("POST /users", body, 500, InternalServerError))
            /\ UNCHANGED console
       ELSE LET name == Prop(body.v, "name")
                email == Prop(body.v, "email")
            IN /\ console' = Append(console,
                                    [level |-> "log", text |-> "Creating user:",
                                     arg |-> Obj([name |-> name, email |-> email])])
               /\ replies' = Append(replies,
                                    Served("POST /users", body, 201,
                                           JsonStringify(NewUser(name, email, clock))))
  /\ UNCHANGED <<processEnv, fs, clock, pc, PORT, URL, API_KEY, listenPort,
                 exitCode>>

-----------------------------------------------------------------------------

NextConfig == Boot \/ ListenResolved \/ ListenRejected

Next ==
  \/ Boot
  \/ ListenResolved
  \/ ListenRejected
  \/ Tick
  \/ GetRoot
  \/ \E body \in RequestBodies : PostUsers(body)

Spec == Init /\ [][Next]_vars
SpecConfig == InitConfig /\ [][NextConfig]_vars
-----------------------------------------------------------------------------
\* Configuration resolution (checked under SpecConfig).

\* The resolved value of a key: the constant the program keeps for it.
Resolved(k) ==
  CASE k = "PORT" -> PORT
    [] k = "URL" -> URL
    [] OTHER -> API_KEY

\* The value the program falls back on for a key.
DefaultOf(k) ==
  CASE k = "PORT" -> Num(DefaultPort)
    [] k = "URL" -> Str(DefaultUrl)
    [] OTHER -> Undefined

Defines(n, k) == fs[n].exists /\ k \in DOMAIN fs[n].parsed

\* C1 as stated: a key present in the process environment when the program
\* starts resolves to the process environment's value, whatever the files say.
C1_EnvValueAlwaysResolved ==
  [][pc = "init" /\ pc' # "init" =>
       \A k \in ConfigKeys :
         k \in DOMAIN processEnv => Resolved(k)' = Str(processEnv[k])]_vars

\* C1 amended: a key present in the process environment never takes a file's
\* value: it resolves to the process environment's value, except that an
\* empty PORT or URL resolves to the default (3000, http://localhost:3000).
C1_EnvOverFiles ==
  [][pc = "init" /\ pc' # "init" =>
       \A k \in ConfigKeys :
         k \in DOMAIN processEnv =>
           Resolved(k)' = IF processEnv[k] = <<>> /\ k # "API_KEY"
                            THEN DefaultOf(k)
                            ELSE Str(processEnv[k])]_vars

\* The program has started with PORT set in the process environment and set
\* to something else in .env.local, and PORT is the environment's value.
C1_Witness ==
  /\ pc = "binding"
  /\ "PORT" \in DOMAIN processEnv
  /\ Defines(EnvLocalName, "PORT")
  /\ fs[EnvLocalName].parsed["PORT"] # processEnv["PORT"]
  /\ PORT = Str(processEnv["PORT"])

\* The run-mode: NODE_ENV, "production" when it is not set.
RunMode(env) == IF "NODE_ENV" \in DOMAIN env THEN env["NODE_ENV"] ELSE Production

\* The files in the order of precedence, for a run-mode.
Layers(mode) ==
  <<ModeFile(mode, TRUE), EnvLocalName, ModeFile(mode, FALSE), DotEnv>>

\* C2: a key that is not in the process environment resolves to the value of
\* the first file that defines it, in the order .env.<mode>.local, .env.local,
\* .env.<mode>, .env, the mode being NODE_ENV or "production".
C2_FirstFileWins ==
  [][pc = "init" /\ pc' # "init" =>
       \A k \in ConfigKeys :
         LET order == Layers(RunMode(processEnv))
             hits == {i \in DOMAIN order : Defines(order[i], k)}
         IN k \notin DOMAIN processEnv /\ hits # {} =>
              LET first == CHOOSE i \in hits : \A j \in hits : i <= j
              IN Resolved(k)' = Str(fs[order[first]].parsed[k])]_vars

\* C5: start-up goes on whatever files are missing, and a key that no source
\* defines resolves to its default: PORT to 3000, URL to
\* http://localhost:3000, API_KEY to undefined, each key on its own.
C5_DefaultsWhenAbsent ==
  [][pc = "init" /\ pc' # "init" =>
       /\ pc' = "binding"
       /\ exitCode' = <<>>
       /\ \A k \in ConfigKeys :
            k \notin DOMAIN processEnv /\ (\A n \in FileNames : ~Defines(n, k)) =>
              Resolved(k)' = CASE k = "PORT" -> Num(3000)
                               [] k = "URL" -> Str(DefaultUrl)
                               [] OTHER -> Undefined]_vars

\* The program has started without a .env.local and with none of the three
\* keys in the process environment, and holds the three defaults.
C5_Witness ==
  /\ pc = "binding"
  /\ ~fs[EnvLocalName].exists
  /\ DOMAIN processEnv \cap ConfigKeys = {}
  /\ PORT = Num(3000)
  /\ URL = Str(DefaultUrl)
  /\ API_KEY = Undefined

\* A string that is a decimal number: digits, after an optional sign.
IsNumeral(s) ==
  LET w == IF s # <<>> /\ Head(s) \in {"-", "+"} THEN Tail(s) ELSE s
  IN w # <<>> /\ \A i \in DOMAIN w : IsDigit(w[i])

\* C6: with a PORT string that is not a number the server binds to 3000.
C6_NonNumericPortBinds3000 ==
  pc # "init" /\ PORT.t = "string" /\ ~IsNumeral(PORT.v) => listenPort = 3000

-----------------------------------------------------------------------------
\* Requests and termination (checked under Spec).

IsGet(r) == r.route = "GET /"
IsPost(r) == r.route = "POST /users"

\* Every reply to GET / carries the three constants.
GetRepliesCarryConfig ==
  \A i \in DOMAIN replies :
    IsGet(replies[i]) =>
      /\ Prop(replies[i].payload, "port") = PORT
      /\ Prop(replies[i].payload, "url") = URL
      /\ Prop(replies[i].payload, "apiKey") = API_KEY

\* C3: the three constants are written at start-up, before the server
\* listens and before any request is served, and never again; every reply to
\* GET /, whatever was served before it, carries their values.
C3_ConfigWrittenOnce ==
  [][/\ pc # "init" => PORT' = PORT /\ URL' = URL /\ API_KEY' = API_KEY
     /\ pc # "listening" => replies' = <<>>
     /\ pc' = "listening" => pc \in {"binding", "listening"}
     /\ GetRepliesCarryConfig']_vars

\* A GET / served after a POST /users at a later clock value, carrying a PORT
\* that came from the environment.
C3_Witness ==
  /\ Len(replies) = 2
  /\ IsPost(replies[1])
  /\ IsGet(replies[2])
  /\ replies[1].now < replies[2].now
  /\ PORT.t = "string"
  /\ replies[2].payload["port"] = PORT

\* The value is the number n, or the decimal numeral of n.
DenotesPort(x, n) == x = Num(n) \/ (x.t = "string" /\ x.v = ToString(n))

\* C4: GET / answers 200 with the fields message, port, url and apiKey, port
\* being the port the server is bound to, url and apiKey the resolved values.
\* The claim is read in the code's favour where a reader could: the port may
\* come as a number or as its numeral, and an undefined apiKey may be left
\* out of the body.
C4_GetRootReportsBoundPort ==
  \A i \in DOMAIN replies :
    IsGet(replies[i]) =>
      /\ replies[i].status = 200
      /\ DOMAIN replies[i].payload \subseteq {"message", "port", "url", "apiKey"}
      /\ {"message", "port", "url"} \subseteq DOMAIN replies[i].payload
      /\ DenotesPort(replies[i].payload["port"], listenPort)
      /\ replies[i].payload["url"] = URL
      /\ Prop(replies[i].payload, "apiKey") = API_KEY

HasNameAndEmail(b) == b.t = "object" /\ DOMAIN b.v = {"name", "email"}

\* The text is 'user-' followed by the decimal numeral of n.
IsUserIdOf(s, n) ==
  /\ Len(s) > Len(UserPrefix)
  /\ SubSeq(s, 1, Len(UserPrefix)) = UserPrefix
  /\ LET d == SubSeq(s, Len(UserPrefix) + 1, Len(s))
     IN /\ \A i \in DOMAIN d : IsDigit(d[i])
        /\ Len(d) > 1 => d[1] # "0"
        /\ DigitsValue(d, 0) = n

\* C7: POST /users with a name and an email answers 201 with exactly id,
\* name and email, the name and email as sent and the id 'user-' followed by
\* the clock value of the request in decimal; two such requests with the same
\* body at the same clock value get the same answer, whatever came between.
C7_PostUsersReply ==
  /\ \A i \in DOMAIN replies :
       IsPost(replies[i]) /\ HasNameAndEmail(replies[i].body) =>
         /\ replies[i].status = 201
         /\ DOMAIN replies[i].payload = {"id", "name", "email"}
         /\ replies[i].payload["name"] = replies[i].body.v["name"]
         /\ replies[i].payload["email"] = replies[i].body.v["email"]
         /\ replies[i].payload["id"].t = "string"
         /\ IsUserIdOf(replies[i].payload["id"].v, replies[i].now)
  /\ \A i, j \in DOMAIN replies :
       /\ IsPost(replies[i]) /\ IsPost(replies[j])
       /\ replies[i].body = replies[j].body
       /\ replies[i].now = replies[j].now
       => replies[i] = replies[j]

\* Alice was created at a clock value later than the start's, after another
\* request.
C7_Witness ==
  /\ Len(replies) = 2
  /\ IsPost(replies[2])
  /\ replies[2].body = Obj([name |-> Alice, email |-> AliceMail])
  /\ replies[2].now > ClockStart
  /\ replies[2].status = 201
  /\ replies[2].payload["name"] = Alice

\* C8: every request to the two routes succeeds: GET / with 200 and
\* POST /users with 201, whatever its body, a missing body included.
C8_EveryRequestSucceeds ==
  \A i \in DOMAIN replies :
    /\ IsGet(replies[i]) => replies[i].status = 200
    /\ IsPost(replies[i]) => replies[i].status = 201

HasStartupMessage ==
  \E i \in DOMAIN console : console[i].text = "Server listening on port"

\* C9: the process ends only when listening fails, with the error logged
\* last and exit status 1, no request served and no start-up message
\* written; once listening it goes on listening; and the start-up messages
\* are only there when the bind succeeded.
C9_OnlyBindFailureTerminates ==
  [][/\ pc' = "exited" =>
          /\ pc \in {"binding", "exited"}
          /\ exitCode' = <<1>>
          /\ console' # <<>>
          /\ console'[Len(console')].level = "error"
          /\ replies' = <<>>
          /\ ~HasStartupMessage'
     /\ pc' # "exited" => exitCode' = <<>>
     /\ pc = "listening" => pc' = "listening"
     /\ HasStartupMessage' => pc' = "listening"
     /\ pc = "binding" /\ pc' = "listening" =>
          ~HasStartupMessage /\ HasStartupMessage']_vars

\* Listening on the default port failed and the process has ended.
C9_Witness ==
  /\ pc = "exited"
  /\ listenPort = 3000
  /\ exitCode = <<1>>
  /\ console[Len(console)].level = "error"

Created(r) == IsPost(r) /\ r.status = 201

\* C10: two users get the same id exactly when they were created at the same
\* clock value, whatever their names and emails.
C10_SameIdIffSameClock ==
  \A i, j \in DOMAIN replies :
    Created(replies[i]) /\ Created(replies[j]) =>
      (replies[i].payload["id"] = replies[j].payload["id"]
         <=> replies[i].now = replies[j].now)

\* Two users with different names created at the same clock value have the
\* same id.
C10_Witness ==
  /\ Len(replies) = 2
  /\ Created(replies[1]) /\ Created(replies[2])
  /\ replies[1].now = replies[2].now
  /\ replies[1].body # replies[2].body
  /\ replies[1].payload["id"] = replies[2].payload["id"]

====
